---- MODULE Spec2Model ----
(***************************************************************************)
(* Model of the IronTelemetry Python SDK: the offline queue (queue.py),    *)
(* the transport (transport.py), option resolution (config.py) and the     *)
(* capture / flush pipeline of the client (client.py).                     *)
(***************************************************************************)
EXTENDS Integers, Sequences, FiniteSets, TLC

\* ------------------------------------------------------------------ bounds
MaxSize == 2     \* largest max_offline_queue_size that is configured
MaxEvents == 2   \* number of captures of one run of the client
MaxEnqueues == 4 \* number of enqueue calls on an OfflineQueue used alone
Scale == 2       \* sampling resolution: the value v stands for v / Scale
MaxRestarts == 1 \* how often a new client is constructed over the store
MaxCrumbs == 2   \* largest max_breadcrumbs that is configured
MaxAdds == 4     \* number of breadcrumbs added to one BreadcrumbManager
MaxJourneys == 1 \* number of journeys started on one client
MaxCtxCrumbs == 1 \* number of breadcrumbs added next to journeys

VARIABLES
    options,     \* TelemetryClient._options after resolve_options
    queue,       \* OfflineQueue._queue (the in-memory list)
    store,       \* the persisted queue.json file
    closed,      \* Transport._client has been closed
    nextId,      \* the next identifier generate_event_id returns
    call,        \* the last public operation: its inputs and how it ended
    lastResult,  \* the SendResult the last capture returned
    netLog,      \* the Transport calls the last operation made, in order
    preQueue,    \* OfflineQueue._queue when the last operation started
    restarts,    \* the number of constructions after the first
    enqueued,    \* events enqueued (OfflineQueue alone: since it was empty)
    fromEmpty,   \* OfflineQueue alone: only enqueues since it was empty
    breadcrumbs, \* BreadcrumbManager: _max_breadcrumbs and _breadcrumbs
    added,       \* the breadcrumbs added since construction, in order
    user,        \* TelemetryClient._user
    tags,        \* TelemetryClient._tags
    extra,       \* TelemetryClient._extra
    journeys,    \* the Journey objects created so far, by creation order
    current_journey, \* TelemetryClient._current_journey: 0 is None
    built,       \* the event the last capture built, and its view then
    roundtrip,   \* one event on its way into queue.json and back
    tasks,       \* the coroutines of the event loop and where each waits
    accepted,    \* how often Transport accepted each built event
    network      \* "flaky", or "recovered": from then on every call succeeds

\* the client's context, which the send pipeline leaves alone
ctxVars ==
    <<breadcrumbs, added, user, tags, extra, journeys, current_journey, built,
      roundtrip, tasks, accepted, network>>

\* what the context operations of the client leave alone
otherVars == <<roundtrip, tasks, accepted, network>>

vars == <<options, queue, store, closed, nextId, call, lastResult, netLog,
          preQueue, restarts, enqueued, fromEmpty, ctxVars>>

\* ------------------------------------------------------------- data types
NoId == 0
ServerId == 0 - 1   \* the eventId a response body carries
HookId == 0 - 2     \* the event_id a before_send hook writes into its event

NoEvent == [event_id |-> NoId, user_name |-> "None"]

\* types.py SendResult: success, event_id = None, error = None, queued = False
SendResult(success, event_id, error, queued) ==
    [success |-> success, event_id |-> event_id, error |-> error,
     queued |-> queued]

NoResult == SendResult(FALSE, NoId, "None", FALSE)

Min(a, b) == IF a < b THEN a ELSE b
Max(a, b) == IF a > b THEN a ELSE b

\* ---------------------------------------------------------------- config
\* options.sample_rate = max(0.0, min(1.0, options.sample_rate))
resolve_options(raw) ==
    [raw EXCEPT !.sample_rate = Max(0, Min(Scale, raw.sample_rate))]

RawOptions ==
    [sample_rate : {0 - 1, 0, Scale, Scale + 1},
     before_send : BOOLEAN,
     enable_offline_queue : BOOLEAN,
     max_offline_queue_size : 0 .. MaxSize]

\* ------------------------------------------------------------ OfflineQueue
\* _serialize_event: the stored dict has no user.name (nor frame colno)
serialize_event(e) == [event_id |-> e.event_id]

\* _deserialize_event: User(id=, email=, data=) leaves name at its default
deserialize_event(d) == [event_id |-> d.event_id, user_name |-> "None"]

MapSeq(f(_), s) == [i \in 1 .. Len(s) |-> f(s[i])]

NoStore == [kind |-> "missing", data |-> <<>>]

\* the loaded list turned around
load_reversed(st) ==
    IF st.kind = "ok"
    THEN [i \in 1 .. Len(st.data) |->
            deserialize_event(st.data[Len(st.data) + 1 - i])]
    ELSE <<>>

\* _load: a missing file or any exception leaves the queue empty
load(st) ==
    IF st.kind = "ok" THEN MapSeq(deserialize_event, st.data) ELSE <<>>

\* _save: mkdir/open may fail (file untouched), the dump may fail after the
\* file was truncated (file unreadable); every failure is swallowed
save(q, st, disk) ==
    CASE disk = "ok" -> [kind |-> "ok", data |-> MapSeq(serialize_event, q)]
      [] disk = "fail_open" -> st
      [] OTHER -> [kind |-> "corrupt", data |-> <<>>]

DiskStates == {"ok", "fail_open", "fail_write"}

\* a failed save let out of enqueue
enqueue_save_raises(q, st, max_size, event, disk) ==
    IF Len(q) >= max_size /\ q = <<>>
    THEN [raised |-> TRUE, queue |-> q, store |-> st]
    ELSE LET q1 == IF Len(q) >= max_size THEN Tail(q) ELSE q
             q2 == Append(q1, event)
         IN [raised |-> disk # "ok", queue |-> q2,
             store |-> save(q2, st, disk)]

\* enqueue: pop(0) raises IndexError on an empty list
enqueue(q, st, max_size, event, disk) ==
    IF Len(q) >= max_size /\ q = <<>>
    THEN [raised |-> TRUE, queue |-> q, store |-> st]
    ELSE LET q1 == IF Len(q) >= max_size THEN Tail(q) ELSE q
             q2 == Append(q1, event)
         IN [raised |-> FALSE, queue |-> q2, store |-> save(q2, st, disk)]

remove(q, st, event_id, disk) ==
    LET q1 == SelectSeq(q, LAMBDA e : e.event_id # event_id)
    IN [queue |-> q1, store |-> save(q1, st, disk)]

clear(st, disk) == [queue |-> <<>>, store |-> save(<<>>, st, disk)]

\* get_all: a copy of the in-memory list
get_all(q) == q

\* size: the length of the in-memory list
size(q) == Len(q)

\* --------------------------------------------------------------- Transport
Responses == {"json_id", "json_noid", "not_json", "http_error", "exception"}
HealthResponses == {"200", "503", "exception"}

\* the responses _process_queue tells apart: it reads result.success only
FlushResponses == {"json_noid", "not_json", "http_error"}

\* what the exchange of send_async can be: an exception raised at the
\* await may have an empty str(e), as a timeout of the async backend has
Exchanges == Responses \cup {"exception_blank"}

Failure(error) == SendResult(FALSE, NoId, error, FALSE)

\* what send and send_async do with the response once the POST was made
from_response(resp, event) ==
    CASE resp = "exception" -> Failure("exception")
      [] resp = "exception_blank" -> Failure("")
      [] resp = "http_error" -> Failure("HTTP")
      [] resp = "not_json" -> Failure("exception")
      [] resp = "json_id" -> SendResult(TRUE, ServerId, "None", FALSE)
      [] OTHER -> SendResult(TRUE, event.event_id, "None", FALSE)

\* send posts on self._client, which raises once it was closed
send(isClosed, resp, event) ==
    IF isClosed THEN Failure("exception") ELSE from_response(resp, event)

\* send_async posts on a fresh httpx.AsyncClient
send_async(resp, event) == from_response(resp, event)

transport_send(mode, isClosed, resp, event) ==
    IF mode = "sync" THEN send(isClosed, resp, event)
    ELSE send_async(resp, event)

\* is_online: true only on HTTP 200 of the health GET on self._client
is_online(isClosed, health) == ~isClosed /\ health = "200"

Probe == [kind |-> "probe", event_id |-> NoId]

\* one step of the send pipeline and the event it handled
Step(name, event) == [step |-> name, event_id |-> event.event_id]
SendCall(event) == [kind |-> "send", event_id |-> event.event_id]

\* ------------------------------------------------------------------ client
\* generate_event_id: uuid4, a fresh identifier per call
generate_event_id(n) == n

\* _create_event: User(id, email, data) of set_user never carries a name
create_event(n) == [event_id |-> generate_event_id(n), user_name |-> "None"]

\* the comparison turned around
SampledOutInverted(draw, sample_rate) == draw < sample_rate

\* random.random() > self._options.sample_rate
SampledOut(draw, sample_rate) == draw > sample_rate

\* what the configured before_send hook returns for the built event
HookOutcomes(event) ==
    {[kind |-> "drop", event |-> NoEvent],
     [kind |-> "same", event |-> event],
     [kind |-> "modified",
      event |-> [event_id |-> HookId, user_name |-> "n"]]}

NoHook(event) == [kind |-> "none", event |-> event]

\* a None of the hook read as "keep the event" (event = result or event)
before_send_or_event(opts, event, hook) ==
    IF opts.before_send /\ hook.kind # "drop" THEN hook.event ELSE event

\* result = before_send(event); None drops, anything else replaces the event
before_send(opts, event, hook) ==
    IF opts.before_send THEN hook.event ELSE event

\* the queued result built without queued=True
deliver_unflagged(mode, isClosed, opts, q, st, event, resp, disk) ==
    LET result == transport_send(mode, isClosed, resp, event)
        enq == enqueue(q, st, opts.max_offline_queue_size, event, disk)
    IN IF ~result.success /\ opts.enable_offline_queue
       THEN [raised |-> enq.raised,
             result |-> IF enq.raised THEN NoResult
                        ELSE SendResult(result.success, event.event_id,
                                        result.error, FALSE),
             queue |-> enq.queue, store |-> enq.store,
             netLog |-> <<SendCall(event)>>, sent |-> event, tres |-> result,
             enqueued |-> ~enq.raised,
             steps |-> <<Step("send", event), Step("enqueue", event)>>]
       ELSE [raised |-> FALSE, result |-> result, queue |-> q, store |-> st,
             netLog |-> <<SendCall(event)>>, sent |-> event, tres |-> result,
             enqueued |-> FALSE, steps |-> <<Step("send", event)>>]

\* the failed event kept for retry whether or not a queue is configured
deliver_unguarded(mode, isClosed, opts, q, st, event, resp, disk) ==
    LET result == transport_send(mode, isClosed, resp, event)
        enq == enqueue(q, st, opts.max_offline_queue_size, event, disk)
    IN IF ~result.success
       THEN [raised |-> enq.raised,
             result |-> IF enq.raised THEN NoResult
                        ELSE SendResult(result.success, event.event_id,
                                        result.error, TRUE),
             queue |-> enq.queue, store |-> enq.store,
             netLog |-> <<SendCall(event)>>, sent |-> event, tres |-> result,
             enqueued |-> ~enq.raised,
             steps |-> <<Step("send", event), Step("enqueue", event)>>]
       ELSE [raised |-> FALSE, result |-> result, queue |-> q, store |-> st,
             netLog |-> <<SendCall(event)>>, sent |-> event, tres |-> result,
             enqueued |-> FALSE, steps |-> <<Step("send", event)>>]

\* the tail of _send_event / _send_event_async: send, enqueue on failure
deliver(mode, isClosed, opts, q, st, event, resp, disk) ==
    LET result == transport_send(mode, isClosed, resp, event)
        enq == enqueue(q, st, opts.max_offline_queue_size, event, disk)
    IN IF ~result.success /\ opts.enable_offline_queue
       THEN [raised |-> enq.raised,
             result |-> IF enq.raised THEN NoResult
                        ELSE SendResult(result.success, event.event_id,
                                        result.error, TRUE),
             queue |-> enq.queue, store |-> enq.store,
             netLog |-> <<SendCall(event)>>, sent |-> event, tres |-> result,
             enqueued |-> ~enq.raised,
             steps |-> <<Step("send", event), Step("enqueue", event)>>]
       ELSE [raised |-> FALSE, result |-> result, queue |-> q, store |-> st,
             netLog |-> <<SendCall(event)>>, sent |-> event, tres |-> result,
             enqueued |-> FALSE, steps |-> <<Step("send", event)>>]

\* return SendResult(success=True, event_id=event.event_id)
dropped(q, st, event) ==
    [raised |-> FALSE,
     result |-> SendResult(TRUE, event.event_id, "None", FALSE),
     queue |-> q, store |-> st, netLog |-> <<>>, sent |-> NoEvent,
     tres |-> NoResult, enqueued |-> FALSE, steps |-> <<>>]

\* the steps of the pipeline before the send, in the order they ran
before_steps(opts, event, sampled) ==
    IF sampled THEN <<Step("sample_drop", event)>>
    ELSE IF opts.before_send
         THEN <<Step("sample_pass", event), Step("hook", event)>>
         ELSE <<Step("sample_pass", event)>>

\* the built event sent on, whatever the hook returned
send_event_unhooked(mode, isClosed, opts, q, st, event, draw, hook, resp, disk) ==
    LET hooked == before_send(opts, event, hook)
        r == IF SampledOut(draw, opts.sample_rate) THEN dropped(q, st, event)
             ELSE IF hooked = NoEvent THEN dropped(q, st, event)
             ELSE deliver(mode, isClosed, opts, q, st, event, resp, disk)
    IN [r EXCEPT !.steps = before_steps(opts, event,
                                        SampledOut(draw, opts.sample_rate))
                             \o @]

\* _send_event / _send_event_async: sampling, hook, send, enqueue
send_event(mode, isClosed, opts, q, st, event, draw, hook, resp, disk) ==
    LET hooked == before_send(opts, event, hook)
        r == IF SampledOut(draw, opts.sample_rate) THEN dropped(q, st, event)
             ELSE IF hooked = NoEvent THEN dropped(q, st, event)
             ELSE deliver(mode, isClosed, opts, q, st, hooked, resp, disk)
    IN [r EXCEPT !.steps = before_steps(opts, event,
                                        SampledOut(draw, opts.sample_rate))
                             \o @]

\* the loop of _process_queue over the snapshot get_all() returned
RECURSIVE drain(_, _, _, _, _, _, _, _)
drain(mode, isClosed, snapshot, resps, i, q, st, disk) ==
    IF i > Len(snapshot) THEN [queue |-> q, store |-> st]
    ELSE LET result == transport_send(mode, isClosed, resps[i], snapshot[i])
             r == IF result.success
                  THEN remove(q, st, snapshot[i].event_id, disk)
                  ELSE [queue |-> q, store |-> st]
         IN drain(mode, isClosed, snapshot, resps, i + 1, r.queue, r.store,
                  disk)

idle(q, st) ==
    [queue |-> q, store |-> st, netLog |-> <<>>, probed |-> FALSE,
     online |-> FALSE, sendOk |-> <<>>]

\* the events are sent but none is removed
drained_kept(mode, isClosed, q, st, resps, disk, online) ==
    LET d == [queue |-> q, store |-> st]
    IN [queue |-> d.queue, store |-> d.store,
        netLog |-> <<Probe>> \o MapSeq(SendCall, q),
        probed |-> TRUE, online |-> online,
        sendOk |-> [i \in 1 .. Len(q) |->
                      transport_send(mode, isClosed, resps[i], q[i]).success]]

\* get_all() is sent in order; every success is removed by its event_id
drained(mode, isClosed, q, st, resps, disk, online) ==
    LET d == drain(mode, isClosed, q, resps, 1, q, st, disk)
    IN [queue |-> d.queue, store |-> d.store,
        netLog |-> <<Probe>> \o MapSeq(SendCall, q),
        probed |-> TRUE, online |-> online,
        sendOk |-> [i \in 1 .. Len(q) |->
                      transport_send(mode, isClosed, resps[i], q[i]).success]]

\* the result of the probe is not looked at
process_queue_unprobed(mode, isClosed, opts, q, st, health, resps, disk) ==
    IF ~opts.enable_offline_queue \/ q = <<>> THEN idle(q, st)
    ELSE drained(mode, isClosed, q, st, resps, disk,
                 is_online(isClosed, health))

\* the is_empty test is missing
process_queue_eager(mode, isClosed, opts, q, st, health, resps, disk) ==
    IF ~opts.enable_offline_queue THEN idle(q, st)
    ELSE IF ~is_online(isClosed, health)
    THEN [idle(q, st) EXCEPT !.netLog = <<Probe>>, !.probed = TRUE]
    ELSE drained(mode, isClosed, q, st, resps, disk, TRUE)

\* _process_queue / _process_queue_async (both probe with the sync is_online)
process_queue(mode, isClosed, opts, q, st, health, resps, disk) ==
    IF ~opts.enable_offline_queue \/ q = <<>> THEN idle(q, st)
    ELSE IF ~is_online(isClosed, health)
    THEN [idle(q, st) EXCEPT !.netLog = <<Probe>>, !.probed = TRUE]
    ELSE drained(mode, isClosed, q, st, resps, disk, TRUE)

\* ------------------------------------------------------------ state machine
Modes == {"sync", "async"}

\* the modes that can differ: send and send_async run the same code on the
\* response, and part only once close() has closed the sync client
ModesNow(isClosed) == IF isClosed THEN Modes ELSE {"sync"}

NoCall ==
    [op |-> "init", hook |-> "none",
     sent |-> NoEvent, tres |-> NoResult, probed |-> FALSE,
     online |-> FALSE, sendOk |-> <<>>, raised |-> FALSE,
     disk |-> "ok", event_id |-> NoId, resp |-> "none",
     extra |-> [k |-> "None", k2 |-> "None"], steps |-> <<>>]

\* TelemetryClient.__init__: resolve_options, then OfflineQueue(...) which
\* loads queue.json when the offline queue is enabled
construct(raw, st) ==
    LET opts == resolve_options(raw)
    IN [options |-> opts,
        queue |-> IF opts.enable_offline_queue THEN load(st) ELSE <<>>]

\* BreadcrumbManager.__init__
BreadcrumbManager(max_breadcrumbs) ==
    [max_breadcrumbs |-> max_breadcrumbs, list |-> <<>>]

\* TelemetryOptions as the dataclass defaults them, at the model's scale
DefaultOptions ==
    [sample_rate |-> Scale, before_send |-> FALSE,
     enable_offline_queue |-> TRUE, max_offline_queue_size |-> MaxSize]

\* BreadcrumbManager(self._options.max_breadcrumbs)
InitBreadcrumbManager(max_breadcrumbs) ==
    /\ breadcrumbs = BreadcrumbManager(max_breadcrumbs)
    /\ added = <<>>

\* a dict over the one key the model uses; "None" is an absent key
EmptyDict == "None"

\* no event, as the context fields of TelemetryEvent
NoJourney ==
    [journey_id |-> 0, name |-> "None", current_step |-> "None",
     started_at |-> 0, metadata |-> 0]

\* an event's extra and a capture's extra argument, over the keys k and
\* k2; the ambient extra of the model only ever holds k
NoExtra == [k |-> "None", k2 |-> "None"]

NoBuilt ==
    [event_id |-> NoId, user |-> "None", tags |-> EmptyDict,
     extra |-> NoExtra, breadcrumbs |-> <<>>, journey |-> NoJourney,
     metadata_then |-> EmptyDict]

\* User, StackFrame, ExceptionInfo and JourneyContext with every field;
\* "None" and 0 stand for None
NoUser == [id |-> "None", email |-> "None", name |-> "None", data |-> "None"]

NoException ==
    [type |-> "None", message |-> "None", has_stacktrace |-> FALSE,
     stacktrace |-> <<>>]

NoContext ==
    [journey_id |-> 0, name |-> "None", current_step |-> "None",
     started_at |-> 0, metadata |-> "None"]

NoFullEvent ==
    [event_id |-> NoId, message |-> "None", exception |-> NoException,
     user |-> NoUser, tags |-> EmptyDict, extra |-> EmptyDict,
     breadcrumbs |-> <<>>, journey |-> NoContext]

NoRoundtrip ==
    [phase |-> "none", event |-> NoFullEvent, data |-> NoFullEvent,
     restored |-> NoFullEvent]

\* a coroutine that is not running
IdleTask == [pc |-> "idle", snapshot |-> <<>>, i |-> 0, event |-> NoEvent]

Tasks == {1, 2}

\* no coroutine is running and nothing was sent yet
InitLoop ==
    /\ tasks = [t \in Tasks |-> IdleTask]
    /\ accepted = [n \in 1 .. MaxEvents |-> 0]
    /\ network = "flaky"

\* self._tags = {}, self._extra = {}, self._user = None,
\* self._current_journey = None
InitAmbient ==
    /\ roundtrip = NoRoundtrip
    /\ InitLoop
    /\ user = "None"
    /\ tags = EmptyDict
    /\ extra = EmptyDict
    /\ journeys = <<>>
    /\ current_journey = 0
    /\ built = NoBuilt

\* the context a new TelemetryClient starts with
InitContext ==
    /\ InitBreadcrumbManager(MaxCrumbs)
    /\ InitAmbient

InitPipeline ==
    \E raw \in RawOptions :
        /\ options = construct(raw, NoStore).options
        /\ queue = construct(raw, NoStore).queue
        /\ store = NoStore
        /\ closed = FALSE
        /\ nextId = 1
        /\ call = NoCall
        /\ lastResult = NoResult
        /\ netLog = <<>>
        /\ preQueue = <<>>
        /\ restarts = 0
        /\ enqueued = <<>>
        /\ fromEmpty = TRUE

Init == InitPipeline /\ InitContext

\* a new process: a client with another queue configuration is constructed
\* over the store the last one left
Restart ==
    \E raw \in {o \in RawOptions : /\ o.sample_rate = options.sample_rate
                                    /\ o.before_send = options.before_send} :
        /\ restarts < MaxRestarts
        /\ restarts' = restarts + 1
        /\ options' = construct(raw, store).options
        /\ queue' = construct(raw, store).queue
        /\ closed' = FALSE
        /\ call' = NoCall
        /\ lastResult' = NoResult
        /\ netLog' = <<>>
        /\ preQueue' = queue
        /\ UNCHANGED ctxVars
        /\ UNCHANGED <<store, nextId, enqueued, fromEmpty>>

\* capture_message / capture_exception and their async variants; the hook,
\* the response and the disk are drawn only where the pipeline consults them
Capture(op, mode) ==
    /\ nextId <= MaxEvents
    /\ LET event == create_event(nextId)
           rate == options.sample_rate
       IN \E draw \in 0 .. (Scale - 1) :
          \E hook \in IF options.before_send /\ ~SampledOut(draw, rate)
                      THEN HookOutcomes(event) ELSE {NoHook(event)} :
          \E resp \in IF SampledOut(draw, rate) \/ hook.kind = "drop"
                      THEN {"json_noid"} ELSE Responses :
          \E disk \in IF options.enable_offline_queue
                         /\ ~transport_send(mode, closed, resp,
                                            hook.event).success
                      THEN DiskStates ELSE {"ok"} :
          \E r \in {send_event(mode, closed, options, queue, store, event,
                                draw, hook, resp, disk)} :
               /\ queue' = r.queue
               /\ store' = r.store
               /\ lastResult' = r.result
               /\ netLog' = r.netLog
               /\ call' = [NoCall EXCEPT !.op = op, !.hook = hook.kind,
                             !.sent = r.sent, !.tres = r.tres,
                             !.raised = r.raised, !.steps = r.steps]
    /\ nextId' = nextId + 1
    /\ preQueue' = queue
    /\ UNCHANGED ctxVars
    /\ UNCHANGED <<options, closed, restarts, enqueued, fromEmpty>>

CaptureMessage ==
    \E mode \in ModesNow(closed) : Capture("capture_message", mode)

CaptureException ==
    \E mode \in ModesNow(closed) : Capture("capture_exception", mode)

\* flush / flush_async
Flush ==
    \E mode \in ModesNow(closed) :
    \E health \in IF options.enable_offline_queue /\ queue # <<>>
                  THEN HealthResponses ELSE {"200"} :
    \E resps \in IF options.enable_offline_queue /\ is_online(closed, health)
                 THEN [1 .. Len(queue) -> FlushResponses]
                 ELSE {[i \in 1 .. Len(queue) |-> "json_noid"]} :
    \E disk \in IF \E i \in 1 .. Len(queue) : resps[i] = "json_noid"
                THEN DiskStates ELSE {"ok"} :
    \E r \in {process_queue(mode, closed, options, queue, store, health,
                            resps, disk)} :
           /\ queue' = r.queue
           /\ store' = r.store
           /\ netLog' = r.netLog
           /\ call' = [NoCall EXCEPT !.op = "flush", !.probed = r.probed,
                         !.online = r.online, !.sendOk = r.sendOk]
           /\ lastResult' = NoResult
           /\ preQueue' = queue
           /\ UNCHANGED ctxVars
           /\ UNCHANGED <<options, closed, nextId, restarts, enqueued,
                          fromEmpty>>

\* close: self._transport.close()
Close ==
    /\ closed' = TRUE
    /\ call' = [NoCall EXCEPT !.op = "close"]
    /\ lastResult' = NoResult
    /\ netLog' = <<>>
    /\ preQueue' = queue
    /\ UNCHANGED ctxVars
    /\ UNCHANGED <<options, queue, store, nextId, restarts, enqueued,
                   fromEmpty>>

Next == CaptureMessage \/ CaptureException \/ Flush \/ Close \/ Restart

Spec == Init /\ [][Next]_vars

\* ------------------------------------------------- the OfflineQueue alone
\* OfflineQueue(max_size) constructed directly, then used by its own methods
InitQueue ==
    /\ Init
    /\ options.enable_offline_queue
    /\ ~options.before_send
    /\ options.sample_rate = Scale

\* OfflineQueue.__init__ over the existing queue.json
QConstruct ==
    \E max_size \in 0 .. MaxSize :
        /\ restarts < MaxRestarts
        /\ restarts' = restarts + 1
        /\ options' = [options EXCEPT !.max_offline_queue_size = max_size]
        /\ queue' = load(store)
        /\ call' = NoCall
        /\ preQueue' = queue
        /\ enqueued' = <<>>
        /\ fromEmpty' = (queue' = <<>>)
        /\ UNCHANGED ctxVars
        /\ UNCHANGED <<store, closed, nextId, lastResult, netLog>>

QEnqueue ==
    /\ nextId <= MaxEnqueues
    /\ \E disk \in DiskStates, name \in {"None", "n"} :
       \E r \in {enqueue(queue, store, options.max_offline_queue_size,
                         [event_id |-> generate_event_id(nextId),
                          user_name |-> name], disk)} :
          /\ queue' = r.queue
          /\ store' = r.store
          /\ call' = [NoCall EXCEPT !.op = "enqueue", !.raised = r.raised,
                        !.disk = disk,
                        !.sent = [event_id |-> generate_event_id(nextId),
                                  user_name |-> name]]
          /\ enqueued' = IF r.raised THEN enqueued
                         ELSE Append(enqueued, call'.sent)
    /\ nextId' = nextId + 1
    /\ preQueue' = queue
    /\ UNCHANGED ctxVars
    /\ UNCHANGED <<options, closed, lastResult, netLog, restarts, fromEmpty>>

QRemove ==
    \E event_id \in 1 .. MaxEnqueues, disk \in DiskStates :
    \E r \in {remove(queue, store, event_id, disk)} :
        /\ queue' = r.queue
        /\ store' = r.store
        /\ call' = [NoCall EXCEPT !.op = "remove", !.disk = disk,
                                  !.event_id = event_id]
        /\ preQueue' = queue
        /\ enqueued' = IF r.queue = queue THEN enqueued ELSE <<>>
        /\ fromEmpty' = IF r.queue = queue THEN fromEmpty ELSE r.queue = <<>>
        /\ UNCHANGED ctxVars
        /\ UNCHANGED <<options, closed, nextId, lastResult, netLog, restarts>>

QClear ==
    \E disk \in DiskStates :
    \E r \in {clear(store, disk)} :
        /\ queue' = r.queue
        /\ store' = r.store
        /\ call' = [NoCall EXCEPT !.op = "clear", !.disk = disk]
        /\ preQueue' = queue
        /\ enqueued' = <<>>
        /\ fromEmpty' = TRUE
        /\ UNCHANGED ctxVars
        /\ UNCHANGED <<options, closed, nextId, lastResult, netLog, restarts>>

NextQueue == QConstruct \/ QEnqueue \/ QRemove \/ QClear

SpecQueue == InitQueue /\ [][NextQueue]_vars

\* ------------------------------------------------------------ properties
IsCapture == call.op \in {"capture_message", "capture_exception"}

\* the capture reached Transport.send: sampling and the hook let it through
Sent == IsCapture /\ call.sent # NoEvent

LastN(q, n) == SubSeq(q, Len(q) - n + 1, Len(q))

\* the entries of q whose send did not succeed, in the order of q
RECURSIVE KeepFailed(_, _)
KeepFailed(q, ok) ==
    IF q = <<>> THEN <<>>
    ELSE (IF ok[1] THEN <<>> ELSE <<Head(q)>>) \o KeepFailed(Tail(q), Tail(ok))

NoSendIn(log) == \A i \in DOMAIN log : log[i].kind # "send"

\* C1: in every reachable state of an OfflineQueue (after construction over
\* the persisted store and after any enqueue, remove and clear) the number
\* of queued events is at most the configured max_size.
C1_QueueWithinMaxSize == Len(queue) <= options.max_offline_queue_size

\* C2: enqueueing max_size + k events (k >= 1) into an initially empty
\* OfflineQueue completes without error and leaves exactly the last max_size
\* events enqueued, in insertion order, for every max_size >= 0.
C2_EnqueueKeepsLastMaxSize ==
    /\ call.op = "enqueue" => ~call.raised
    /\ (fromEmpty /\ Len(enqueued) > options.max_offline_queue_size)
         => queue = LastN(enqueued, options.max_offline_queue_size)

\* C3: a capture that passed sampling and the hook, whose Transport.send
\* failed, with the offline queue enabled, returns success=false, queued=true
\* with the transport's error, and the sent event is then the last entry of
\* the queue.
C3_FailedSendIsQueued ==
    (Sent /\ ~call.tres.success /\ options.enable_offline_queue)
      => /\ ~call.raised
         /\ ~lastResult.success
         /\ lastResult.queued
         /\ lastResult.error = call.tres.error
         /\ queue # <<>>
         /\ queue[Len(queue)] = call.sent

\* C4: a flush that found the server online leaves the queue it started with
\* minus exactly the entries whose send succeeded: failed entries stay, in
\* their relative order.
C4_FlushRemovesExactlySucceeded ==
    (call.op = "flush" /\ call.online)
      => queue = KeepFailed(preQueue, call.sendOk)

\* C5: a flush (sync or async) whose is_online() probe returned false leaves
\* the offline queue unchanged and performs no Transport.send.
C5_OfflineFlushLeavesQueue ==
    (call.op = "flush" /\ call.probed /\ ~call.online)
      => /\ queue = preQueue
         /\ NoSendIn(netLog)

C5_Witness ==
    /\ call.op = "flush"
    /\ call.probed
    /\ ~call.online
    /\ Len(preQueue) = 2
    /\ queue = preQueue
    /\ netLog = <<Probe>>

\* C6: a flush makes no network call when the client has no queue or the
\* queue is empty; otherwise it probes is_online() exactly once, before any
\* send, and when the probe is true it sends each event queued at the start
\* of the flush exactly once, oldest first.
C6_FlushNetworkCalls ==
    call.op = "flush"
      => IF ~options.enable_offline_queue \/ preQueue = <<>>
         THEN netLog = <<>>
         ELSE /\ netLog # <<>>
              /\ Head(netLog) = Probe
              /\ \A i \in 2 .. Len(netLog) : netLog[i].kind = "send"
              /\ call.online => Tail(netLog) = MapSeq(SendCall, preQueue)
              /\ ~call.online => Tail(netLog) = <<>>

C6_Witness ==
    /\ call.op = "flush"
    /\ call.online
    /\ Len(preQueue) = 2
    /\ preQueue[1].event_id # preQueue[2].event_id
    /\ netLog = <<Probe, SendCall(preQueue[1]), SendCall(preQueue[2])>>

\* C7: with sample_rate = 0.0 no capture invokes Transport.send, whatever the
\* random draw: every capture returns success=true, queued=false and leaves
\* the offline queue unchanged.
C7_ZeroRateNeverSends ==
    (IsCapture /\ options.sample_rate = 0)
      => /\ netLog = <<>>
         /\ lastResult.success
         /\ ~lastResult.queued
         /\ queue = preQueue

\* C8: with sample_rate = 1.0 no capture is dropped by sampling: every
\* capture the hook does not drop invokes Transport.send exactly once.
C8_FullRateAlwaysSends ==
    (IsCapture /\ options.sample_rate = Scale /\ call.hook # "drop")
      => /\ Len(netLog) = 1
         /\ netLog[1].kind = "send"

C8_Witness ==
    /\ IsCapture
    /\ options.sample_rate = Scale
    /\ call.hook = "modified"
    /\ netLog = <<SendCall(call.sent)>>
    /\ call.sent.event_id = HookId

\* C9: a capture whose before_send hook returns None yields success=true,
\* queued=false, never invokes Transport.send and leaves the offline queue
\* unchanged.
C9_HookDropIsSilent ==
    (IsCapture /\ call.hook = "drop")
      => /\ ~call.raised
         /\ lastResult.success
         /\ ~lastResult.queued
         /\ netLog = <<>>
         /\ queue = preQueue

C9_Witness ==
    /\ IsCapture
    /\ call.hook = "drop"
    /\ preQueue # <<>>
    /\ lastResult = SendResult(TRUE, nextId - 1, "None", FALSE)

\* C10: no capture or flush raises to the caller on a network, serialization
\* or queue persistence failure, for every max_offline_queue_size: a failed
\* send is returned as a SendResult with success=false and an error.
C10_FailuresNeverRaise ==
    /\ call.op \in {"capture_message", "capture_exception", "flush"}
         => ~call.raised
    /\ (Sent /\ ~call.tres.success)
         => (~lastResult.success /\ lastResult.error # "None")

\* what a capture did, told from the path it took through the pipeline
OutcomeOf(sampled, r, opts) ==
    CASE r.raised -> "raised"
      [] sampled -> "sampled-out"
      [] r.sent = NoEvent -> "filtered-out"
      [] r.tres.success -> "sent"
      [] opts.enable_offline_queue -> "queued"
      [] OTHER -> "failed-no-queue"

Outcome ==
    OutcomeOf(call.sent = NoEvent /\ call.hook # "drop", call, options)

\* the SendResult fields a caller can tell outcomes by
Fields(r) == <<r.success, r.error # "None", r.queued>>

\* C11: the SendResult of a capture determines which of the five outcomes
\* occurred: a capture of the same event from the same client state that
\* ends in another outcome returns other field values (success, error
\* presence, queued).
C11_ResultTellsOutcome ==
    (IsCapture /\ ~call.raised)
      => LET event == create_event(nextId - 1)
         IN \A mode \in Modes, draw \in 0 .. (Scale - 1), resp \in Responses,
               hook \in IF options.before_send THEN HookOutcomes(event)
                        ELSE {NoHook(event)} :
              LET r == send_event(mode, closed, options, preQueue, store,
                                  event, draw, hook, resp, "ok")
                  sampled == SampledOut(draw, options.sample_rate)
              IN (~r.raised /\ Fields(r.result) = Fields(lastResult))
                   => OutcomeOf(sampled, r, options) = Outcome

\* C11 as amended: the fields tell three classes apart, delivered or
\* dropped (success, no error, not queued), queued (failure, error, queued)
\* and failed without a queue (failure, error, not queued).
C11_ResultTellsClass ==
    IsCapture
      => /\ Outcome \in {"sent", "sampled-out", "filtered-out"}
              <=> Fields(lastResult) = <<TRUE, FALSE, FALSE>>
         /\ Outcome = "queued" <=> Fields(lastResult) = <<FALSE, TRUE, TRUE>>
         /\ Outcome = "failed-no-queue"
              <=> Fields(lastResult) = <<FALSE, TRUE, FALSE>>

C11_Witness ==
    /\ IsCapture
    /\ Outcome = "queued"
    /\ Fields(lastResult) = <<FALSE, TRUE, TRUE>>
    /\ Len(queue) = 2

\* C12: with the offline queue disabled a capture whose Transport.send
\* failed returns the transport's failure unchanged (success=false,
\* queued=false, error set), nothing is stored for retry, and a flush makes
\* no network call.
C12_NoQueueReturnsRawFailure ==
    /\ (Sent /\ ~call.tres.success /\ ~options.enable_offline_queue)
         => /\ ~call.raised
            /\ lastResult = call.tres
            /\ Fields(lastResult) = <<FALSE, TRUE, FALSE>>
            /\ queue = <<>>
    /\ (call.op = "flush" /\ ~options.enable_offline_queue)
         => (netLog = <<>> /\ queue = <<>>)

C12_Witness ==
    /\ Sent
    /\ ~options.enable_offline_queue
    /\ lastResult = Failure("HTTP")
    /\ queue = <<>>

\* the event ids of a list of events or of stored entries, in order
Ids(s) == [i \in 1 .. Len(s) |-> s[i].event_id]

\* C15: constructing an OfflineQueue never fails; over a missing,
\* unreadable or corrupt store the queue starts empty, and over a store
\* written by a successful save it holds the saved events' ids in the
\* saved order.
C15_ConstructLoadsStore ==
    (call.op = "init" /\ restarts > 0)
      => /\ ~call.raised
         /\ store.kind # "ok" => queue = <<>>
         /\ store.kind = "ok" => Ids(queue) = Ids(store.data)

C15_Witness ==
    /\ call.op = "init"
    /\ restarts > 0
    /\ store.kind = "ok"
    /\ Len(queue) = 2
    /\ queue[1].event_id # queue[2].event_id

\* the save of a queue operation was reached and failed
SaveFailed ==
    /\ call.op \in {"enqueue", "remove", "clear"}
    /\ call.disk # "ok"
    /\ call.op = "enqueue"
         => ~(Len(preQueue) >= options.max_offline_queue_size
              /\ preQueue = <<>>)

\* C16: when writing the store fails during enqueue, remove or clear the
\* operation returns normally and the in-memory queue, as get_all and size
\* report it, reflects the operation: event appended, entries removed,
\* emptied.
C16_SaveFailureKeepsMemory ==
    SaveFailed
      => /\ ~call.raised
         /\ call.op = "enqueue"
              => /\ size(queue) >= 1
                 /\ get_all(queue)[size(queue)] = call.sent
                 /\ SubSeq(queue, 1, size(queue) - 1)
                      = IF Len(preQueue) >= options.max_offline_queue_size
                        THEN Tail(preQueue) ELSE preQueue
         /\ call.op = "remove"
              => get_all(queue)
                   = SelectSeq(preQueue,
                               LAMBDA e : e.event_id # call.event_id)
         /\ call.op = "clear" => (get_all(queue) = <<>> /\ size(queue) = 0)

C16_Witness ==
    /\ SaveFailed
    /\ call.op = "enqueue"
    /\ call.disk = "fail_write"
    /\ store.kind = "corrupt"
    /\ size(queue) = 2

\* C17: no two entries of the offline queue share an event_id, for every
\* before_send hook and every loaded store.
C17_QueueIdsDistinct ==
    \A i, j \in 1 .. Len(queue) :
        queue[i].event_id = queue[j].event_id => i = j

\* ------------------------------------------- the BreadcrumbManager alone
\* s[-n:] as Python slices it: -0 is 0, so s[-0:] is the whole list
Slice(s, n) ==
    IF n = 0 THEN s ELSE SubSeq(s, Max(Len(s) - n, 0) + 1, Len(s))

\* append, then trim to max size
trim(s, max_breadcrumbs) ==
    IF Len(s) > max_breadcrumbs THEN Slice(s, max_breadcrumbs) ELSE s

\* BreadcrumbManager.add and add_breadcrumb
add(b, breadcrumb) ==
    [b EXCEPT !.list = trim(Append(b.list, breadcrumb), b.max_breadcrumbs)]

\* BreadcrumbManager.get_all: a copy of the list
crumbs_get_all(b) == b.list

Messages == {"a", "b"}

InitBreadcrumbs ==
    /\ InitPipeline
    /\ options = DefaultOptions
    /\ \E max_breadcrumbs \in 0 .. MaxCrumbs :
           InitBreadcrumbManager(max_breadcrumbs)
    /\ InitAmbient

BAdd(method) ==
    /\ Len(added) < MaxAdds
    /\ \E message \in Messages :
        /\ breadcrumbs' = add(breadcrumbs, message)
        /\ added' = Append(added, message)
    /\ call' = [NoCall EXCEPT !.op = method]
    /\ UNCHANGED otherVars
    /\ UNCHANGED <<options, queue, store, closed, nextId, lastResult, netLog,
                   preQueue, restarts, enqueued, fromEmpty>>
    /\ UNCHANGED <<user, tags, extra, journeys, current_journey, built>>

\* BreadcrumbManager.add(message, ...)
BreadcrumbsAdd == BAdd("add")

\* BreadcrumbManager.add_breadcrumb(breadcrumb)
BreadcrumbsAddBreadcrumb == BAdd("add_breadcrumb")

\* BreadcrumbManager.clear
BreadcrumbsClear ==
    /\ added # <<>>
    /\ breadcrumbs' = [breadcrumbs EXCEPT !.list = <<>>]
    /\ added' = <<>>
    /\ call' = [NoCall EXCEPT !.op = "crumbs_clear"]
    /\ UNCHANGED otherVars
    /\ UNCHANGED <<options, queue, store, closed, nextId, lastResult, netLog,
                   preQueue, restarts, enqueued, fromEmpty>>
    /\ UNCHANGED <<user, tags, extra, journeys, current_journey, built>>

NextBreadcrumbs ==
    BreadcrumbsAdd \/ BreadcrumbsAddBreadcrumb \/ BreadcrumbsClear

SpecBreadcrumbs == InitBreadcrumbs /\ [][NextBreadcrumbs]_vars

\* C13: for every max_breadcrumbs >= 0, after more add calls than
\* max_breadcrumbs get_all() has exactly max_breadcrumbs entries, the most
\* recent additions in their original order, and after any add the buffer
\* holds at most max_breadcrumbs entries.
C13_BreadcrumbsKeepLastMax ==
    /\ Len(added) > breadcrumbs.max_breadcrumbs
         => /\ Len(crumbs_get_all(breadcrumbs)) = breadcrumbs.max_breadcrumbs
            /\ crumbs_get_all(breadcrumbs)
                 = LastN(added, breadcrumbs.max_breadcrumbs)
    /\ call.op \in {"add", "add_breadcrumb"}
         => Len(breadcrumbs.list) <= breadcrumbs.max_breadcrumbs

\* ---------------------------------- the client's context and its journeys
Users == {"u"}

\* Journey.__init__; the creation order stands for _id and _started_at
Journey(n, name) ==
    [journey_id |-> n, name |-> name, started_at |-> n,
     metadata |-> EmptyDict, user |-> "None", current_step |-> "None",
     status |-> "active"]

\* Journey.set_user
journey_set_user(js, j, id) == [js EXCEPT ![j].user = id]

\* Journey.set_metadata: self._metadata[key] = value, in place
journey_set_metadata(js, j, value) == [js EXCEPT ![j].metadata = value]

\* Journey.start_step: the step started becomes the current step
journey_start_step(js, j, name) == [js EXCEPT ![j].current_step = name]

\* Journey.get_context: metadata is self._metadata itself, held here as
\* the journey whose dict it is; the other fields are values
get_context(js, j) ==
    [journey_id |-> js[j].journey_id, name |-> js[j].name,
     current_step |-> js[j].current_step, started_at |-> js[j].started_at,
     metadata |-> j]

\* Journey.get_user
get_user(js, j) == js[j].user

\* TelemetryClient.start_journey: a new Journey that copies the user
start_journey(js, cu, name) ==
    LET j == Len(js) + 1
        js1 == Append(js, Journey(j, name))
    IN [journeys |-> IF cu # "None" THEN journey_set_user(js1, j, cu)
                     ELSE js1,
        current_journey |-> j]

\* the missing journey passed over
start_step_lenient(js, cj, name) ==
    IF cj = 0
    THEN [raised |-> FALSE, journeys |-> js]
    ELSE [raised |-> FALSE, journeys |-> journey_start_step(js, cj, name)]

\* TelemetryClient.start_step: RuntimeError without a current journey
start_step(js, cj, name) ==
    IF cj = 0
    THEN [raised |-> TRUE, journeys |-> js]
    ELSE [raised |-> FALSE, journeys |-> journey_start_step(js, cj, name)]

\* TelemetryClient._create_event: the context fields of the built event
build_event(n, cu, tg, ex, bc, js, cj) ==
    [event_id |-> generate_event_id(n),
     user |-> IF cj # 0 THEN get_user(js, cj) ELSE cu,
     tags |-> tg,
     extra |-> [NoExtra EXCEPT !.k = ex],
     breadcrumbs |-> crumbs_get_all(bc),
     journey |-> IF cj # 0 THEN get_context(js, cj) ELSE NoJourney,
     metadata_then |-> IF cj # 0 THEN js[cj].metadata ELSE EmptyDict]

\* the metadata map read through the built event's journey context
metadata_of(e, js) ==
    IF e.journey.metadata = 0 THEN EmptyDict
    ELSE js[e.journey.metadata].metadata

InitClientContext ==
    /\ InitPipeline
    /\ options = DefaultOptions
    /\ InitBreadcrumbManager(MaxCrumbs)
    /\ InitAmbient

\* TelemetryClient.set_user
SetUser ==
    /\ \E id \in Users : user' = id
    /\ call' = [NoCall EXCEPT !.op = "context"]
    /\ UNCHANGED otherVars
    /\ UNCHANGED <<options, queue, store, closed, nextId, lastResult, netLog,
                   preQueue, restarts, enqueued, fromEmpty>>
    /\ UNCHANGED <<breadcrumbs, added, tags, extra, journeys,
                   current_journey, built>>

\* TelemetryClient.clear_user
ClearUser ==
    /\ user # "None"
    /\ user' = "None"
    /\ call' = [NoCall EXCEPT !.op = "context"]
    /\ UNCHANGED otherVars
    /\ UNCHANGED <<options, queue, store, closed, nextId, lastResult, netLog,
                   preQueue, restarts, enqueued, fromEmpty>>
    /\ UNCHANGED <<breadcrumbs, added, tags, extra, journeys,
                   current_journey, built>>

\* TelemetryClient.set_tag
SetTag ==
    /\ tags' = "t"
    /\ call' = [NoCall EXCEPT !.op = "context"]
    /\ UNCHANGED otherVars
    /\ UNCHANGED <<options, queue, store, closed, nextId, lastResult, netLog,
                   preQueue, restarts, enqueued, fromEmpty>>
    /\ UNCHANGED <<breadcrumbs, added, user, extra, journeys,
                   current_journey, built>>

\* TelemetryClient.set_extra
SetExtra ==
    /\ extra' = "x"
    /\ call' = [NoCall EXCEPT !.op = "context"]
    /\ UNCHANGED otherVars
    /\ UNCHANGED <<options, queue, store, closed, nextId, lastResult, netLog,
                   preQueue, restarts, enqueued, fromEmpty>>
    /\ UNCHANGED <<breadcrumbs, added, user, tags, journeys,
                   current_journey, built>>

\* TelemetryClient.add_breadcrumb
AddBreadcrumb ==
    /\ Len(added) < MaxCtxCrumbs
    /\ breadcrumbs' = add(breadcrumbs, "a")
    /\ added' = Append(added, "a")
    /\ call' = [NoCall EXCEPT !.op = "context"]
    /\ UNCHANGED otherVars
    /\ UNCHANGED <<options, queue, store, closed, nextId, lastResult, netLog,
                   preQueue, restarts, enqueued, fromEmpty>>
    /\ UNCHANGED <<user, tags, extra, journeys, current_journey, built>>

\* TelemetryClient.start_journey
StartJourneyUpTo(n) ==
    /\ Len(journeys) < n
    /\ \E r \in {start_journey(journeys, user, "j")} :
        /\ journeys' = r.journeys
        /\ current_journey' = r.current_journey
    /\ call' = [NoCall EXCEPT !.op = "context"]
    /\ UNCHANGED otherVars
    /\ UNCHANGED <<options, queue, store, closed, nextId, lastResult, netLog,
                   preQueue, restarts, enqueued, fromEmpty>>
    /\ UNCHANGED <<breadcrumbs, added, user, tags, extra, built>>

\* TelemetryClient.start_journey
StartJourney == StartJourneyUpTo(MaxJourneys)

\* TelemetryClient.start_journey while an earlier journey is the current one
ReplaceJourney == current_journey # 0 /\ StartJourneyUpTo(MaxJourneys + 1)

\* TelemetryClient.start_step
StartStep ==
    /\ \E r \in {start_step(journeys, current_journey, "s")} :
        /\ journeys' = r.journeys
        /\ call' = [NoCall EXCEPT !.op = "start_step", !.raised = r.raised]
    /\ UNCHANGED otherVars
    /\ UNCHANGED <<options, queue, store, closed, nextId, lastResult, netLog,
                   preQueue, restarts, enqueued, fromEmpty>>
    /\ UNCHANGED <<breadcrumbs, added, user, tags, extra, current_journey,
                   built>>

\* Journey.set_metadata on a journey the caller holds
JourneySetMetadata ==
    /\ \E j \in 1 .. Len(journeys) :
           journeys' = journey_set_metadata(journeys, j, "m")
    /\ call' = [NoCall EXCEPT !.op = "context"]
    /\ UNCHANGED otherVars
    /\ UNCHANGED <<options, queue, store, closed, nextId, lastResult, netLog,
                   preQueue, restarts, enqueued, fromEmpty>>
    /\ UNCHANGED <<breadcrumbs, added, user, tags, extra, current_journey,
                   built>>

\* JourneyScope.__exit__: fail or complete the journey, then on_complete
JourneyScopeExit ==
    /\ \E j \in 1 .. Len(journeys), exc \in BOOLEAN :
        /\ journeys[j].status = "active"
        /\ journeys' = [journeys EXCEPT
                          ![j].status = IF exc THEN "failed" ELSE "completed"]
    /\ current_journey' = 0
    /\ call' = [NoCall EXCEPT !.op = "context"]
    /\ UNCHANGED otherVars
    /\ UNCHANGED <<options, queue, store, closed, nextId, lastResult, netLog,
                   preQueue, restarts, enqueued, fromEmpty>>
    /\ UNCHANGED <<breadcrumbs, added, user, tags, extra, built>>

\* the extra arguments of capture_exception: none, one that sets the
\* ambient key, one that sets another key
PerCallExtras == {NoExtra, [NoExtra EXCEPT !.k = "y"],
                  [NoExtra EXCEPT !.k2 = "y"]}

\* the ambient value kept where the call gives one for the same key
capture_extra_ambient_wins(event_extra, percall) ==
    [key \in DOMAIN event_extra |->
        IF event_extra[key] # "None" THEN event_extra[key] ELSE percall[key]]

\* if extra: event.extra.update(extra)
capture_extra(event_extra, percall) ==
    [key \in DOMAIN event_extra |->
        IF percall[key] # "None" THEN percall[key] ELSE event_extra[key]]

\* a capture while the network is down: the event is built from the
\* context, the send fails and the event waits in the offline queue
CaptureCtx(op, percall) ==
    /\ nextId <= MaxEvents
    /\ \E r \in {send_event("sync", closed, options, queue, store,
                            create_event(nextId), 0,
                            NoHook(create_event(nextId)), "exception",
                            "ok")} :
        /\ queue' = r.queue
        /\ store' = r.store
        /\ lastResult' = r.result
        /\ netLog' = r.netLog
        /\ call' = [NoCall EXCEPT !.op = op, !.sent = r.sent,
                                  !.tres = r.tres, !.raised = r.raised,
                                  !.extra = percall]
    /\ \E e \in {build_event(nextId, user, tags, extra, breadcrumbs,
                              journeys, current_journey)} :
        built' = [e EXCEPT !.extra = capture_extra(e.extra, percall)]
    /\ nextId' = nextId + 1
    /\ preQueue' = queue
    /\ UNCHANGED <<options, closed, restarts, enqueued, fromEmpty>>
    /\ UNCHANGED <<breadcrumbs, added, user, tags, extra, journeys,
                   current_journey, roundtrip, tasks, accepted,
                   network>>

\* capture_message(message)
CaptureOffline == CaptureCtx("capture_message", NoExtra)

\* capture_exception(error, extra)
CaptureExceptionOffline ==
    \E percall \in PerCallExtras : CaptureCtx("capture_exception", percall)

\* the ambient context of the client, and steps with or without a journey
NextClientContext ==
    \/ SetUser
    \/ ClearUser
    \/ SetTag
    \/ SetExtra
    \/ AddBreadcrumb
    \/ StartJourney
    \/ StartStep
    \/ JourneyScopeExit
    \/ CaptureOffline

SpecClientContext == InitClientContext /\ [][NextClientContext]_vars

\* the ambient context and the captures that copy it, without journeys
NextAmbient ==
    \/ SetUser
    \/ ClearUser
    \/ SetTag
    \/ SetExtra
    \/ AddBreadcrumb
    \/ CaptureOffline
    \/ CaptureExceptionOffline

SpecAmbient == InitClientContext /\ [][NextAmbient]_vars

\* journeys, their users, steps and metadata, and the events built in them
NextJourney ==
    \/ SetUser
    \/ ClearUser
    \/ StartJourney
    \/ StartStep
    \/ JourneySetMetadata
    \/ JourneyScopeExit
    \/ CaptureOffline

SpecJourney == InitClientContext /\ [][NextJourney]_vars

\* the last operation built an event that now waits in the offline queue
BuiltAndQueued ==
    /\ built.event_id # NoId
    /\ \E i \in 1 .. Len(queue) : queue[i].event_id = built.event_id

\* C18: the built event's user is the active journey's user when the
\* journey has one, and otherwise the client's current user.
C18_EventUserPrecedence ==
    (call.op = "capture_message" /\ built.event_id = nextId - 1)
      => built.user
           = IF current_journey # 0
                /\ get_user(journeys, current_journey) # "None"
             THEN get_user(journeys, current_journey)
             ELSE user

\* C19: the journey context of a built event is a snapshot: while the event
\* waits in the offline queue, later set_metadata and start_step calls on
\* the journey change neither its id, name, current step and start time nor
\* its metadata map.
C19_JourneyContextIsSnapshot ==
    (BuiltAndQueued /\ built.journey # NoJourney)
      => metadata_of(built, journeys) = built.metadata_then

\* C20: start_step without an active journey signals a usage error and
\* leaves the current journey, tags, extra, user, breadcrumbs and queue as
\* they were; with an active journey it never signals that error.
C20_StartStepNeedsJourney ==
    [][call'.op = "start_step"
         => IF current_journey = 0
            THEN /\ call'.raised
                 /\ UNCHANGED <<current_journey, journeys, tags, extra, user,
                                breadcrumbs, queue, store>>
            ELSE /\ ~call'.raised
                 /\ journeys'[current_journey].current_step = "s"]_vars

C20_Witness ==
    /\ call.op = "start_step"
    /\ call.raised
    /\ current_journey = 0
    /\ user # "None"
    /\ Len(journeys) > 0
    /\ Len(queue) > 0

\* ------------------------------------- one event through the queue's file
\* the stack frames and users an event can carry
StackFrames ==
    [function : {"f"}, filename : {"file"}, lineno : {1}, colno : {0, 7}]

UserValues ==
    {NoUser} \cup [id : {"u"}, email : {"None", "e"}, name : {"None", "n"},
                   data : {"None"}]

ExceptionValues ==
    {NoException}
      \cup [type : {"E"}, message : {"m"}, has_stacktrace : {FALSE},
            stacktrace : {<<>>}]
      \cup [type : {"E"}, message : {"m"}, has_stacktrace : {TRUE},
            stacktrace : {<<>>} \cup {<<f>> : f \in StackFrames}]

ContextValues ==
    {NoContext}
      \cup [journey_id : {1}, name : {"j"}, current_step : {"None", "s"},
            started_at : {1}, metadata : {EmptyDict, "m"}]

FullEvents ==
    [event_id : {1}, message : {"m"}, exception : ExceptionValues,
     user : UserValues, tags : {EmptyDict}, extra : {EmptyDict},
     breadcrumbs : {<<>>, <<"a">>}, journey : ContextValues]

\* a frame as _serialize_event writes it: function, filename, lineno
serialize_frame(f) ==
    [function |-> f.function, filename |-> f.filename, lineno |-> f.lineno]

\* StackFrame(function=..., filename=..., lineno=...): colno defaults
deserialize_frame(d) ==
    [function |-> d.function, filename |-> d.filename, lineno |-> d.lineno,
     colno |-> 0]

\* the "exception" entry: the stacktrace entry is None for None and for []
serialize_exception(x) ==
    IF x = NoException THEN [present |-> FALSE, type |-> "None",
                             message |-> "None", has_stacktrace |-> FALSE,
                             stacktrace |-> <<>>]
    ELSE [present |-> TRUE, type |-> x.type, message |-> x.message,
          has_stacktrace |-> x.has_stacktrace /\ x.stacktrace # <<>>,
          stacktrace |-> [i \in 1 .. Len(x.stacktrace) |->
                            serialize_frame(x.stacktrace[i])]]

deserialize_exception(d) ==
    IF ~d.present THEN NoException
    ELSE [type |-> d.type, message |-> d.message,
          has_stacktrace |-> d.has_stacktrace /\ d.stacktrace # <<>>,
          stacktrace |-> IF d.has_stacktrace /\ d.stacktrace # <<>>
                         THEN [i \in 1 .. Len(d.stacktrace) |->
                                 deserialize_frame(d.stacktrace[i])]
                         ELSE <<>>]

\* the "user" entry: id, email, data
serialize_user(u) ==
    IF u = NoUser THEN [present |-> FALSE, id |-> "None", email |-> "None",
                        data |-> "None"]
    ELSE [present |-> TRUE, id |-> u.id, email |-> u.email, data |-> u.data]

\* User(id=..., email=..., data=...): name defaults
deserialize_user(d) ==
    IF ~d.present THEN NoUser
    ELSE [id |-> d.id, email |-> d.email, name |-> "None", data |-> d.data]

\* the "journey" entry carries every field of JourneyContext
serialize_journey(j) ==
    IF j = NoContext THEN [present |-> FALSE, context |-> NoContext]
    ELSE [present |-> TRUE, context |-> j]

deserialize_journey(d) == IF d.present THEN d.context ELSE NoContext

\* OfflineQueue._serialize_event, field by field
serialize_fields(e) ==
    [event_id |-> e.event_id, message |-> e.message,
     exception |-> serialize_exception(e.exception),
     user |-> serialize_user(e.user), tags |-> e.tags, extra |-> e.extra,
     breadcrumbs |-> e.breadcrumbs,
     journey |-> serialize_journey(e.journey)]

\* OfflineQueue._deserialize_event, field by field
deserialize_fields(d) ==
    [event_id |-> d.event_id, message |-> d.message,
     exception |-> deserialize_exception(d.exception),
     user |-> deserialize_user(d.user), tags |-> d.tags, extra |-> d.extra,
     breadcrumbs |-> d.breadcrumbs,
     journey |-> deserialize_journey(d.journey)]

InitRoundtrip ==
    /\ InitPipeline
    /\ options = DefaultOptions
    /\ InitBreadcrumbManager(MaxCrumbs)
    /\ user = "None"
    /\ tags = EmptyDict
    /\ extra = EmptyDict
    /\ journeys = <<>>
    /\ current_journey = 0
    /\ built = NoBuilt
    /\ InitLoop
    /\ \E event \in FullEvents :
           roundtrip = [NoRoundtrip EXCEPT !.phase = "built",
                                           !.event = event]

\* _save writes the event as _serialize_event gives it
StoreEvent ==
    /\ roundtrip.phase = "built"
    /\ roundtrip' = [roundtrip EXCEPT
                       !.phase = "stored",
                       !.data = serialize_fields(roundtrip.event)]
    /\ UNCHANGED <<options, queue, store, closed, nextId, call, lastResult,
                   netLog, preQueue, restarts, enqueued, fromEmpty>>
    /\ UNCHANGED <<breadcrumbs, added, user, tags, extra, journeys,
                   current_journey, built, tasks, accepted,
                   network>>

\* _load reads the entry back through _deserialize_event
LoadEvent ==
    /\ roundtrip.phase = "stored"
    /\ roundtrip' = [roundtrip EXCEPT
                       !.phase = "loaded",
                       !.restored = deserialize_fields(roundtrip.data)]
    /\ UNCHANGED <<options, queue, store, closed, nextId, call, lastResult,
                   netLog, preQueue, restarts, enqueued, fromEmpty>>
    /\ UNCHANGED <<breadcrumbs, added, user, tags, extra, journeys,
                   current_journey, built, tasks, accepted,
                   network>>

NextRoundtrip == StoreEvent \/ LoadEvent

SpecRoundtrip == InitRoundtrip /\ [][NextRoundtrip]_vars

\* C14: an event serialized in the queue's persistence format and
\* deserialized again equals the original in every field, the user's name
\* and the stack frames' colno included.
C14_RoundtripKeepsEveryField ==
    roundtrip.phase = "loaded" => roundtrip.restored = roundtrip.event

\* ----------------------------------------------------- the Transport alone
InitTransport ==
    /\ Init
    /\ options = DefaultOptions

\* Transport.send and Transport.send_async of a newly built event
TSend(mode) ==
    /\ nextId <= MaxEvents
    /\ \E resp \in IF mode = "async" THEN Exchanges ELSE Responses :
       \E r \in {transport_send(mode, closed, resp, create_event(nextId))} :
        /\ lastResult' = r
        /\ netLog' = <<SendCall(create_event(nextId))>>
        /\ call' = [NoCall EXCEPT !.op = IF mode = "sync" THEN "send"
                                         ELSE "send_async",
                                  !.sent = create_event(nextId),
                                  !.tres = r, !.resp = resp]
    /\ nextId' = nextId + 1
    /\ UNCHANGED ctxVars
    /\ UNCHANGED <<options, queue, store, closed, preQueue, restarts,
                   enqueued, fromEmpty>>

TransportSend == TSend("sync")

TransportSendAsync == TSend("async")

\* Transport.is_online
TransportIsOnline ==
    /\ \E health \in HealthResponses :
        call' = [NoCall EXCEPT !.op = "is_online", !.probed = TRUE,
                               !.online = is_online(closed, health),
                               !.resp = health]
    /\ netLog' = <<Probe>>
    /\ UNCHANGED ctxVars
    /\ UNCHANGED <<options, queue, store, closed, nextId, lastResult,
                   preQueue, restarts, enqueued, fromEmpty>>

\* Transport.close
TransportClose ==
    /\ closed' = TRUE
    /\ call' = [NoCall EXCEPT !.op = "close"]
    /\ netLog' = <<>>
    /\ UNCHANGED ctxVars
    /\ UNCHANGED <<options, queue, store, nextId, lastResult, preQueue,
                   restarts, enqueued, fromEmpty>>

NextTransport ==
    TransportSend \/ TransportSendAsync \/ TransportIsOnline
      \/ TransportClose

SpecTransport == InitTransport /\ [][NextTransport]_vars

IsSend == call.op \in {"send", "send_async"}

\* the POST raised: the client was closed, or the exchange itself failed
ExchangeRaised ==
    \/ call.op = "send" /\ closed
    \/ call.resp \in {"exception", "exception_blank"}

\* the POST was answered with a 2xx status
Answered2xx ==
    /\ ~(call.op = "send" /\ closed)
    /\ call.resp \in {"json_id", "json_noid", "not_json"}

\* C21: Transport.send and send_async return success=false with a non-empty
\* error whenever the status is >= 400 or the exchange raises; on success
\* the event_id is the server's eventId when the response carries one and
\* the event's own id otherwise, and the event is not modified.
C21_SendResultOfExchange ==
    IsSend
      => /\ (ExchangeRaised \/ call.resp = "http_error")
              => (~lastResult.success /\ lastResult.error \notin {"None", ""})
         /\ lastResult.success
              => lastResult.event_id
                   = IF call.resp = "json_id" THEN ServerId
                     ELSE call.sent.event_id
         /\ call.sent = create_event(nextId - 1)

\* C22: every 2xx response to the event POST is a successful delivery,
\* whether or not its body carries a JSON eventId.
C22_Every2xxIsSuccess ==
    (IsSend /\ Answered2xx) => lastResult.success

\* C23: from any client state, closed ones included, and for the same
\* draw, hook result and server responses, a capture or flush and its
\* *_async counterpart return the same SendResult and leave the same
\* offline queue.
C23_SyncAsyncAgree ==
    /\ nextId <= MaxEvents
         => \A draw \in 0 .. (Scale - 1), resp \in Responses,
               hook \in IF options.before_send
                        THEN HookOutcomes(create_event(nextId))
                        ELSE {NoHook(create_event(nextId))} :
              LET s == send_event("sync", closed, options, queue, store,
                                  create_event(nextId), draw, hook, resp,
                                  "ok")
                  a == send_event("async", closed, options, queue, store,
                                  create_event(nextId), draw, hook, resp,
                                  "ok")
              IN s.raised = a.raised /\ s.result = a.result
                   /\ s.queue = a.queue
    /\ \A health \in HealthResponses,
          resps \in [1 .. Len(queue) -> FlushResponses] :
           process_queue("sync", closed, options, queue, store, health,
                         resps, "ok").queue
             = process_queue("async", closed, options, queue, store, health,
                             resps, "ok").queue

\* the last step was a capture, whose event is the built one
BuiltNow ==
    /\ call.op \in {"capture_message", "capture_exception"}
    /\ built.event_id = nextId - 1

\* C24: a capture builds its event from copies of the ambient context, the
\* per-call extra overriding equal keys of the ambient extra, and leaves
\* the ambient tags, extra, user and breadcrumb buffer as they were; what
\* is set after the event was built does not appear in it, also while it
\* waits in the offline queue.
C24_EventHoldsCopies ==
    /\ [](BuiltNow
            => /\ built.tags = tags
               /\ built.breadcrumbs = crumbs_get_all(breadcrumbs)
               /\ \A key \in DOMAIN built.extra :
                    built.extra[key]
                      = IF call.extra[key] # "None" THEN call.extra[key]
                        ELSE [NoExtra EXCEPT !.k = extra][key])
    /\ [][IF call'.op \in {"capture_message", "capture_exception"}
          THEN UNCHANGED <<tags, extra, user, breadcrumbs>>
          ELSE UNCHANGED built]_vars

C24_Witness ==
    /\ BuiltAndQueued
    /\ call.op = "context"
    /\ built.extra = [k |-> "y", k2 |-> "None"]
    /\ extra = "x"
    /\ built.tags = EmptyDict
    /\ tags = "t"
    /\ built.breadcrumbs = <<>>
    /\ breadcrumbs.list # <<>>

\* the names of the pipeline steps the last capture ran, in order
StepNames == [i \in 1 .. Len(call.steps) |-> call.steps[i].step]

\* the event the hook handed on: the built one without a hook
HookReturned ==
    IF call.hook = "modified" THEN HookId ELSE nextId - 1

\* C25: within one capture the steps run in the order sampling, hook,
\* send, enqueue; the hook runs at most once and only for events that
\* passed sampling, the send at most once and only after the hook returned
\* an event, and the event sent and enqueued is the one the hook returned.
C25_PipelineOrder ==
    (IsCapture /\ call.steps # <<>>)
      => /\ StepNames \in
              {<<"sample_drop">>, <<"sample_pass">>,
               <<"sample_pass", "hook">>,
               <<"sample_pass", "send">>,
               <<"sample_pass", "send", "enqueue">>,
               <<"sample_pass", "hook", "send">>,
               <<"sample_pass", "hook", "send", "enqueue">>}
         /\ (\E i \in 1 .. Len(call.steps) : StepNames[i] = "hook")
              <=> (options.before_send /\ StepNames[1] = "sample_pass")
         /\ \A i \in 1 .. Len(call.steps) :
              /\ StepNames[i] = "send"
                   => /\ call.hook # "drop"
                      /\ options.before_send => StepNames[i - 1] = "hook"
              /\ StepNames[i] \in {"send", "enqueue"}
                   => /\ call.steps[i].event_id = HookReturned
                      /\ call.sent.event_id = HookReturned
                      /\ netLog = <<SendCall(call.sent)>>
              /\ StepNames[i] \in {"sample_drop", "sample_pass", "hook"}
                   => call.steps[i].event_id = nextId - 1
              /\ (StepNames[i] = "enqueue" /\ ~call.raised)
                   => queue[Len(queue)].event_id = HookReturned

C25_Witness ==
    /\ IsCapture
    /\ StepNames = <<"sample_pass", "hook", "send", "enqueue">>
    /\ call.hook = "modified"
    /\ queue # <<>>
    /\ queue[Len(queue)].event_id = HookId

\* ------------------------------------------- a journey and its replacement
NextReplace ==
    \/ StartJourney
    \/ ReplaceJourney
    \/ StartStep
    \/ JourneyScopeExit
    \/ CaptureOffline

SpecReplace == InitClientContext /\ [][NextReplace]_vars

\* the journey started last, while its own JourneyScope has not exited
LastJourneyOpen ==
    /\ Len(journeys) >= 2
    /\ journeys[Len(journeys)].status = "active"

\* C26: after start_journey(A) and start_journey(B), B is the current
\* journey and A is neither completed nor failed by the replacement; B
\* stays current, events carry its context and start_step succeeds, until
\* B's own JourneyScope exits, whenever A's JourneyScope exits.
C26_ReplacementStaysCurrent ==
    /\ [](LastJourneyOpen
            => /\ current_journey = Len(journeys)
               /\ BuiltNow => built.journey.journey_id = Len(journeys)
               /\ call.op = "start_step" => ~call.raised)
    /\ [][Len(journeys') > Len(journeys)
            => /\ current_journey' = Len(journeys')
               /\ \A j \in 1 .. Len(journeys) :
                    journeys'[j].status = journeys[j].status]_vars

\* ------------------------------------- coroutines on one asyncio event loop
\* a TelemetryEvent object: two objects may carry the same event_id
Object(event, n) ==
    [event_id |-> event.event_id, user_name |-> event.user_name, obj |-> n]

\* the transport accepted the event once more
accept(acc, event) == [acc EXCEPT ![event.obj] = @ + 1]

InitAsync ==
    /\ InitPipeline
    /\ InitContext

\* capture_message_async / capture_exception_async run without a break up
\* to `await self._transport.send_async(event)`; a sampled-out or dropped
\* event returns before it
CaptureAsyncStart(t) ==
    /\ tasks[t].pc = "idle"
    /\ nextId <= MaxEvents
    /\ LET event == create_event(nextId)
           rate == options.sample_rate
       IN \E draw \in 0 .. (Scale - 1) :
          \E hook \in IF options.before_send /\ ~SampledOut(draw, rate)
                      THEN HookOutcomes(event) ELSE {NoHook(event)} :
          \E hooked \in {before_send(options, event, hook)} :
               IF SampledOut(draw, rate) \/ hooked = NoEvent
               THEN /\ lastResult' = dropped(queue, store, event).result
                    /\ UNCHANGED tasks
               ELSE /\ tasks' = [tasks EXCEPT ![t] =
                                   [IdleTask EXCEPT
                                      !.pc = "send_await",
                                      !.event = Object(hooked, nextId)]]
                    /\ UNCHANGED lastResult
    /\ nextId' = nextId + 1
    /\ UNCHANGED <<options, queue, store, closed, call, netLog, preQueue,
                   restarts, enqueued, fromEmpty, accepted>>
    /\ UNCHANGED <<breadcrumbs, added, user, tags, extra, journeys,
                   current_journey, built, roundtrip, network>>

\* the coroutine of a capture resumes with the outcome of its POST and
\* enqueues the event on failure
CaptureAsyncResume(t) ==
    /\ tasks[t].pc = "send_await"
    /\ \E resp \in Exchanges :
       \E r \in {deliver("async", closed, options, queue, store,
                         tasks[t].event, resp, "ok")} :
            /\ queue' = r.queue
            /\ store' = r.store
            /\ lastResult' = r.result
            /\ accepted' = IF r.tres.success
                           THEN accept(accepted, tasks[t].event)
                           ELSE accepted
    /\ tasks' = [tasks EXCEPT ![t] = IdleTask]
    /\ UNCHANGED <<options, closed, nextId, call, netLog, preQueue, restarts,
                   enqueued, fromEmpty>>
    /\ UNCHANGED <<breadcrumbs, added, user, tags, extra, journeys,
                   current_journey, built, roundtrip, network>>

\* _process_queue_async up to its first await: the is_empty test, the
\* blocking is_online probe, the get_all() snapshot and the first POST
FlushAsyncStart(t) ==
    /\ tasks[t].pc = "idle"
    /\ \E health \in IF options.enable_offline_queue /\ queue # <<>>
                     THEN HealthResponses ELSE {"200"} :
         IF /\ options.enable_offline_queue
            /\ queue # <<>>
            /\ is_online(closed, health)
         THEN tasks' = [tasks EXCEPT ![t] =
                          [IdleTask EXCEPT !.pc = "flush_await",
                                           !.snapshot = get_all(queue),
                                           !.i = 1]]
         ELSE UNCHANGED tasks
    /\ UNCHANGED <<options, queue, store, closed, nextId, call, lastResult,
                   netLog, preQueue, restarts, enqueued, fromEmpty, accepted>>
    /\ UNCHANGED <<breadcrumbs, added, user, tags, extra, journeys,
                   current_journey, built, roundtrip, network>>

\* the loop of _process_queue_async resumes with the outcome of the POST of
\* snapshot[i], removes on success and starts the next POST
FlushAsyncResume(t) ==
    /\ tasks[t].pc = "flush_await"
    /\ LET event == tasks[t].snapshot[tasks[t].i]
       IN \E resp \in FlushResponses :
          \E result \in {send_async(resp, event)} :
          \E r \in {IF result.success
                    THEN remove(queue, store, event.event_id, "ok")
                    ELSE [queue |-> queue, store |-> store]} :
               /\ queue' = r.queue
               /\ store' = r.store
               /\ accepted' = IF result.success
                              THEN accept(accepted, event)
                              ELSE accepted
    /\ tasks' = [tasks EXCEPT ![t] =
                   IF tasks[t].i < Len(tasks[t].snapshot)
                   THEN [tasks[t] EXCEPT !.i = @ + 1]
                   ELSE IdleTask]
    /\ UNCHANGED <<options, closed, nextId, call, lastResult, netLog,
                   preQueue, restarts, enqueued, fromEmpty>>
    /\ UNCHANGED <<breadcrumbs, added, user, tags, extra, journeys,
                   current_journey, built, roundtrip, network>>

NextAsync ==
    \E t \in Tasks :
        \/ CaptureAsyncStart(t)
        \/ CaptureAsyncResume(t)
        \/ FlushAsyncStart(t)
        \/ FlushAsyncResume(t)

SpecAsync == InitAsync /\ [][NextAsync]_vars

\* C27: when two flush_async calls interleave at their awaits, no queued
\* event is accepted by the transport more than once.
C27_NoEventAcceptedTwice ==
    \A n \in DOMAIN accepted : accepted[n] <= 1

\* the coroutine t ran on from the await at pc in this step
Resumed(t, pc) == tasks[t].pc = pc /\ tasks'[t] # tasks[t]

\* the object at queue[k] is no longer queued after the step
Gone(k) == ~\E j \in 1 .. Len(queue') : queue'[j].obj = queue[k].obj

\* the event whose POST the flush coroutine t awaits
InFlight(t) == tasks[t].snapshot[tasks[t].i]

\* C28: with capture_*_async and flush_async interleaved at their awaits
\* the queue never holds more than max_offline_queue_size events; an event
\* leaves the queue only as the oldest one evicted by an enqueue on a full
\* queue, or as the event whose send the flush just saw succeed.
C28_InterleavedQueueSafe ==
    /\ [](Len(queue) <= options.max_offline_queue_size)
    /\ [][\A t \in Tasks :
            /\ Resumed(t, "send_await")
                 => \A k \in 1 .. Len(queue) :
                      Gone(k) => /\ k = 1
                                 /\ Len(queue)
                                      >= options.max_offline_queue_size
            /\ Resumed(t, "flush_await")
                 => \A k \in 1 .. Len(queue) :
                      Gone(k) => /\ queue[k].obj = InFlight(t).obj
                                 /\ accepted'[InFlight(t).obj]
                                      = accepted[InFlight(t).obj] + 1]_vars

\* --------------------------- sequential calls while the network recovers
\* what a POST can answer: after the recovery every send succeeds
PostResponses(net, all) ==
    IF net = "recovered" THEN all \cap {"json_id", "json_noid"} ELSE all

\* what the health GET can answer: after the recovery is_online() is true
HealthNow(net) == IF net = "recovered" THEN {"200"} ELSE HealthResponses

\* the object the hook returned
Returned(hook, n) ==
    IF hook.kind = "drop" THEN hook
    ELSE [hook EXCEPT !.event = Object(hook.event, n)]

\* the sends of one _process_queue added to the count of each event
accept_all(acc, snapshot, sendOk) ==
    [n \in DOMAIN acc |->
       acc[n] + Cardinality({i \in 1 .. Len(sendOk) :
                               sendOk[i] /\ snapshot[i].obj = n})]

\* from here on the server is reachable and accepts every event
Recover ==
    /\ network = "flaky"
    /\ network' = "recovered"
    /\ call' = [NoCall EXCEPT !.op = "recovered"]
    /\ UNCHANGED <<options, queue, store, closed, nextId, lastResult, netLog,
                   preQueue, restarts, enqueued, fromEmpty>>
    /\ UNCHANGED <<breadcrumbs, added, user, tags, extra, journeys,
                   current_journey, built, roundtrip, tasks, accepted>>

\* capture_message / capture_exception, run to its return
CaptureCall ==
    /\ nextId <= MaxEvents
    /\ LET event == Object(create_event(nextId), nextId)
           rate == options.sample_rate
       IN \E draw \in 0 .. (Scale - 1) :
          \E hook \in IF options.before_send /\ ~SampledOut(draw, rate)
                      THEN {Returned(h, nextId) : h \in HookOutcomes(event)}
                      ELSE {NoHook(event)} :
          \E resp \in IF SampledOut(draw, rate) \/ hook.kind = "drop"
                      THEN {"json_noid"}
                      ELSE PostResponses(network, Responses) :
          \E r \in {send_event("sync", closed, options, queue, store, event,
                                draw, hook, resp, "ok")} :
               /\ queue' = r.queue
               /\ store' = r.store
               /\ lastResult' = r.result
               /\ netLog' = r.netLog
               /\ call' = [NoCall EXCEPT !.op = "capture_message",
                             !.hook = hook.kind, !.sent = r.sent,
                             !.tres = r.tres, !.raised = r.raised,
                             !.steps = r.steps]
               /\ accepted' = IF r.tres.success
                              THEN accept(accepted, r.sent) ELSE accepted
               /\ enqueued' = IF r.enqueued
                              THEN Append(enqueued, r.sent) ELSE enqueued
    /\ nextId' = nextId + 1
    /\ preQueue' = queue
    /\ UNCHANGED <<options, closed, restarts, fromEmpty>>
    /\ UNCHANGED <<breadcrumbs, added, user, tags, extra, journeys,
                   current_journey, built, roundtrip, tasks, network>>

\* flush, run to its return
FlushCall ==
    \E health \in IF options.enable_offline_queue /\ queue # <<>>
                  THEN HealthNow(network) ELSE {"200"} :
    \E resps \in IF options.enable_offline_queue /\ is_online(closed, health)
                 THEN [1 .. Len(queue)
                         -> PostResponses(network, FlushResponses)]
                 ELSE {[i \in 1 .. Len(queue) |-> "json_noid"]} :
    \E r \in {process_queue("sync", closed, options, queue, store, health,
                            resps, "ok")} :
           /\ queue' = r.queue
           /\ store' = r.store
           /\ netLog' = r.netLog
           /\ call' = [NoCall EXCEPT !.op = "flush", !.probed = r.probed,
                         !.online = r.online, !.sendOk = r.sendOk]
           /\ lastResult' = NoResult
           /\ preQueue' = queue
           /\ accepted' = accept_all(accepted, queue, r.sendOk)
           /\ UNCHANGED <<options, closed, nextId, restarts, enqueued,
                          fromEmpty>>
           /\ UNCHANGED <<breadcrumbs, added, user, tags, extra, journeys,
                          current_journey, built, roundtrip, tasks, network>>

NextRecovery == CaptureCall \/ FlushCall \/ Recover

\* flush() keeps being called
FairRecovery == WF_vars(FlushCall)

SpecRecovery == Init /\ [][NextRecovery]_vars /\ FairRecovery

\* a flush that runs once the network has recovered
FlushAfterRecovery == network = "recovered" /\ call'.op = "flush"

\* C29 (as stated): once is_online() is true and every send succeeds and
\* flush() keeps being called, the queue eventually becomes empty, a single
\* such flush empties it, and every event that was ever queued has been
\* sent successfully exactly once.
C29_QueuedDeliveredOnce ==
    /\ (network = "recovered") ~> (queue = <<>>)
    /\ [][FlushAfterRecovery => queue' = <<>>]_vars
    /\ []((network = "recovered" /\ queue = <<>>)
            => \A i \in 1 .. Len(enqueued) : accepted[enqueued[i].obj] = 1)

\* C29 (amended): once is_online() is true and every send succeeds and
\* flush() keeps being called, the queue eventually becomes empty; a single
\* such flush empties it and sends each event still queued successfully;
\* no queued event was accepted before and no event is ever accepted twice.
C29_StillQueuedDeliveredOnce ==
    /\ (network = "recovered") ~> (queue = <<>>)
    /\ [][FlushAfterRecovery
            => /\ queue' = <<>>
               /\ \A k \in 1 .. Len(queue) :
                    accepted'[queue[k].obj] = 1]_vars
    /\ [](\A k \in 1 .. Len(queue) : accepted[queue[k].obj] = 0)
    /\ [](\A n \in DOMAIN accepted : accepted[n] <= 1)

\* a flush after the recovery has just delivered two queued events
C29_Witness ==
    /\ network = "recovered"
    /\ call.op = "flush"
    /\ Len(call.sendOk) = 2
    /\ queue = <<>>
    /\ \A i \in 1 .. Len(enqueued) : accepted[enqueued[i].obj] = 1

====
